---------------------------- MODULE Spec2Model ----------------------------
(***************************************************************************)
(* A model of the dataset pipeline of src/datasets.py: the label taxonomy, *)
(* the directory scan, the stratified split, the augmentation pipeline     *)
(* selection, BTDataset's length and indexed access, and the sample-dump   *)
(* command CMD.run_samples.                                                *)
(*                                                                         *)
(* Library behaviour the source relies on is modelled by what the library  *)
(* does: sklearn's train_test_split with stratify (validation of the sizes,*)
(* the per-class allocation of _approximate_mode, the per-class            *)
(* permutations), PIL's lazy Image.open, Python's iteration of an object   *)
(* that defines only __getitem__.  numpy's seeded generator is modelled by *)
(* a small linear congruential generator: a deterministic function of the  *)
(* seed, which is all the split needs of it.                               *)
(***************************************************************************)
EXTENDS Integers, Sequences, FiniteSets, TLC

(***************************************************************************)
(* Bounds of the model.                                                    *)
(***************************************************************************)
\* the largest number of .jpg files in one directory of base_dir
MaxFiles == 3
\* seeds are drawn from 0 .. MaxSeed
MaxSeed == 1
\* replication factors are drawn from 1 .. MaxScale
MaxScale == 2
\* indices handed to __getitem__ are drawn from 0 .. MaxIdx
MaxIdx == 5
\* a stochastic pipeline has the outcomes 0 .. MaxDraw
MaxDraw == 1
\* the serving specifications use corpora of at most MaxServeFiles files
MaxServeFiles == 4

\* test_ratio values, as fractions <<numerator, denominator>>: 0, 1/4, 1/2, 1
\* (fractions that binary floating point holds exactly)
Ratios == {<<0, 4>>, <<1, 4>>, <<1, 2>>, <<4, 4>>}
ValidRatios == {r \in Ratios : 0 < r[1] /\ r[1] < r[2]}
Seeds == 0 .. MaxSeed
Scales == 1 .. MaxScale
\* the values of the target argument: the three the code knows and another
Targets == {"train", "test", "all", "valid"}
\* the values of the aug_mode argument: the documented four, 'all' and another
AugModes == {"same", "train", "test", "none", "all", "heavy"}
\* the dataset objects of a run, and the workers reading one
Slots == {1, 2}
Workers == {1, 2}

(***************************************************************************)
(* Sequence helpers.                                                       *)
(***************************************************************************)
Range(s) == {s[i] : i \in DOMAIN s}

Remove(s, j) == [i \in 1 .. Len(s) - 1 |-> IF i < j THEN s[i] ELSE s[i + 1]]

Take(s, k) == [i \in 1 .. k |-> s[i]]

Drop(s, k) == [i \in 1 .. Len(s) - k |-> s[i + k]]

RECURSIVE SumSeq(_)
SumSeq(s) == IF s = <<>> THEN 0 ELSE Head(s) + SumSeq(Tail(s))

Min2(a, b) == IF a < b THEN a ELSE b

\* the elements of a finite set of integers, ascending
RECURSIVE Ascending(_)
Ascending(S) ==
    IF S = {} THEN <<>>
    ELSE LET m == CHOOSE x \in S : \A y \in S : x <= y
         IN  <<m>> \o Ascending(S \ {m})

\* the elements of a finite set of integers, descending
RECURSIVE Descending(_)
Descending(S) ==
    IF S = {} THEN <<>>
    ELSE LET m == CHOOSE x \in S : \A y \in S : x >= y
         IN  <<m>> \o Descending(S \ {m})

(***************************************************************************)
(* Label taxonomy.                                                         *)
(***************************************************************************)
NumToDiag == <<"L", "M", "G", "A", "O">>

Codes == Range(NumToDiag)

\* DiagToNum[code]: the position of the code in the ordered table, from 0
DiagToNum == [c \in Codes |-> (CHOOSE i \in DOMAIN NumToDiag : NumToDiag[i] = c) - 1]

\* the many-to-one collapse of the five codes onto three
Map5to3 ==
    [c \in Codes |-> CASE c = "A" -> "G" [] c = "O" -> "G" [] OTHER -> c]

\* self.num_classes, line 85
NumClasses(merge_G) == IF merge_G THEN 3 ELSE 5

(***************************************************************************)
(* Directory scan: the first loop of load_data.                            *)
(***************************************************************************)
\* glob(base_dir/<dir>/*.jpg) on a directory holding n files.  A file is
\* named by its directory and its position in the listing.
Glob(n, dir) == [k \in 1 .. n |-> [dir |-> dir, k |-> k]]

\* the inner loop without the collapse
RECURSIVE ScanFilesUnmerged(_, _, _)
ScanFilesUnmerged(paths, diag, merge_G) ==
    IF paths = <<>> THEN <<>>
    ELSE <<[path |-> Head(paths), diag |-> diag]>>
             \o ScanFilesUnmerged(Tail(paths), diag, merge_G)

\* The inner loop.  `diag` is the loop variable of the OUTER loop, which the
\* body overwrites: a later file of the directory maps the value the
\* previous file left.
RECURSIVE ScanFiles(_, _, _)
ScanFiles(paths, diag, merge_G) ==
    IF paths = <<>> THEN <<>>
    ELSE LET d == IF merge_G THEN Map5to3[diag] ELSE diag
         IN  <<[path |-> Head(paths), diag |-> d]>>
                 \o ScanFiles(Tail(paths), d, merge_G)

\* The outer loop over NumToDiag, from position i on.
RECURSIVE ScanFrom(_, _, _)
ScanFrom(files, i, merge_G) ==
    IF i > Len(NumToDiag) THEN <<>>
    ELSE ScanFiles(Glob(files[NumToDiag[i]], NumToDiag[i]), NumToDiag[i], merge_G)
             \o ScanFrom(files, i + 1, merge_G)

Scan(files, merge_G) == ScanFrom(files, 1, merge_G)

(***************************************************************************)
(* The seeded generator handed to the split (random_state=self.seed).      *)
(***************************************************************************)
RngInit(seed) == seed % 64

RngStep(s) == (13 * s + 7) % 64

\* rng.permutation(xs): a shuffle drawing one position per element
RECURSIVE PermAcc(_, _, _)
PermAcc(s, xs, acc) ==
    IF xs = <<>> THEN [out |-> acc, rng |-> s]
    ELSE LET s1 == RngStep(s)
             j  == ((s1 \div 4) % Len(xs)) + 1
         IN  PermAcc(s1, Remove(xs, j), Append(acc, xs[j]))

Permutation(s, xs) == PermAcc(s, xs, <<>>)

(***************************************************************************)
(* train_test_split(df_all, test_size, stratify=df_all.diag, random_state) *)
(***************************************************************************)
\* np.unique(y): the labels present, sorted
SortedCodes == <<"A", "G", "L", "M", "O">>

Classes(data) ==
    LET present == {i \in DOMAIN SortedCodes :
                       \E r \in DOMAIN data : data[r].diag = SortedCodes[i]}
        idx == Ascending(present)
    IN  [k \in DOMAIN idx |-> SortedCodes[idx[k]]]

\* the rows of a class, in row order (a stable argsort)
ClassIndices(data, c) == Ascending({r \in DOMAIN data : data[r].diag = c})

\* _approximate_mode: the loop over the distinct remainders, largest first.
\* rem[i] is the numerator of the remainder of class i over a common
\* denominator.
RECURSIVE ApproxLoop(_, _, _, _, _)
ApproxLoop(values, rem, floored, need, s) ==
    IF need = 0 \/ values = <<>> THEN [out |-> floored, rng |-> s]
    ELSE LET inds    == Ascending({i \in DOMAIN rem : rem[i] = Head(values)})
             add_now == Min2(Len(inds), need)
             p       == Permutation(s, inds)
             chosen  == Range(Take(p.out, add_now))
         IN  ApproxLoop(Tail(values), rem,
                        [i \in DOMAIN floored |->
                            IF i \in chosen THEN floored[i] + 1 ELSE floored[i]],
                        need - add_now, p.rng)

ApproximateMode(class_counts, n_draws, s) ==
    LET total   == SumSeq(class_counts)
        floored == [i \in DOMAIN class_counts |-> (class_counts[i] * n_draws) \div total]
        rem     == [i \in DOMAIN class_counts |-> (class_counts[i] * n_draws) % total]
        need    == n_draws - SumSeq(floored)
    IN  ApproxLoop(Descending(Range(rem)), rem, floored, need, s)

\* the loop over the classes: permute the rows of the class, the first n_i
\* go to train, the next t_i to test
RECURSIVE SplitClasses(_, _, _, _, _, _, _, _)
SplitClasses(data, classes, i, n_i, t_i, s, train, test) ==
    IF i > Len(classes) THEN [train |-> train, test |-> test, rng |-> s]
    ELSE LET p == Permutation(s, ClassIndices(data, classes[i]))
         IN  SplitClasses(data, classes, i + 1, n_i, t_i, p.rng,
                          train \o Take(p.out, n_i[i]),
                          test \o Take(Drop(p.out, n_i[i]), t_i[i]))

\* train = rng.permutation(train); test = rng.permutation(test)
ShuffleTest(tr, test) ==
    [err |-> "none", train |-> tr.out, test |-> Permutation(tr.rng, test).out]

ShuffleSides(c) == ShuffleTest(Permutation(c.rng, c.train), c.test)

\* t_i = _approximate_mode(class_counts - n_i, n_test, rng), then the loop
\* over the classes
AllocateTest(data, classes, counts, a, n_test) ==
    LET remain == [i \in DOMAIN counts |-> counts[i] - a.out[i]]
        b      == ApproximateMode(remain, n_test, a.rng)
    IN  ShuffleSides(SplitClasses(data, classes, 1, a.out, b.out, b.rng, <<>>, <<>>))

\* n_i = _approximate_mode(class_counts, n_train, rng)
AllocateTrain(data, classes, counts, n_train, n_test, seed) ==
    AllocateTest(data, classes, counts,
                 ApproximateMode(counts, n_train, RngInit(seed)), n_test)

ClassCounts(data, classes) ==
    [i \in DOMAIN classes |-> Len(ClassIndices(data, classes[i]))]

\* StratifiedShuffleSplit._iter_indices: its checks, then the draw
StratifiedSplit(data, classes, counts, n_train, n_test, seed) ==
    IF \E i \in DOMAIN counts : counts[i] < 2
    THEN [err |-> "ValueError: class with one member", train |-> <<>>, test |-> <<>>]
    ELSE IF n_train < Len(classes) \/ n_test < Len(classes)
    THEN [err |-> "ValueError: fewer rows than classes", train |-> <<>>, test |-> <<>>]
    ELSE AllocateTrain(data, classes, counts, n_train, n_test, seed)

\* _validate_shuffle_split: n_test = ceil(test_size * n), n_train the rest
ValidatedSplit(data, n, n_test, seed) ==
    IF n - n_test = 0
    THEN [err |-> "ValueError: empty train set", train |-> <<>>, test |-> <<>>]
    ELSE StratifiedSplit(data, Classes(data), ClassCounts(data, Classes(data)),
                         n - n_test, n_test, seed)

\* The call of line 141.  The result: err = "none" and the row numbers of the
\* two frames in order, or the exception.  df_all.diag of a frame without
\* rows is an AttributeError; a test_size outside (0, 1) a ValueError.
TrainTestSplit(data, test_ratio, seed) ==
    IF Len(data) = 0
    THEN [err |-> "AttributeError: diag", train |-> <<>>, test |-> <<>>]
    ELSE IF test_ratio[1] <= 0 \/ test_ratio[1] >= test_ratio[2]
    THEN [err |-> "ValueError: test_size", train |-> <<>>, test |-> <<>>]
    ELSE ValidatedSplit(data, Len(data),
                        (test_ratio[1] * Len(data) + test_ratio[2] - 1) \div test_ratio[2],
                        seed)

(***************************************************************************)
(* Augmentation pipeline selection: BTDataset.__init__, lines 87-125.      *)
(***************************************************************************)
TrainPolicy ==
    <<"RandomCrop", "Resize", "RandomRotate90", "HorizontalFlip", "GaussNoise",
      "OneOfBlur", "ShiftScaleRotate", "OneOfContrast", "HueSaturationValue">>

TestPolicy == <<"CenterCrop">>

\* the operators whose output depends on a random draw
StochasticOps == Range(TrainPolicy) \ {"Resize"}

\* the augs dictionary: augs['all'] is augs['test']
Augs ==
    [k \in {"train", "test", "all"} |-> IF k = "train" THEN TrainPolicy ELSE TestPolicy]

\* a dictionary lookup: the value, or KeyError
Lookup(dict, key) ==
    IF key \in DOMAIN dict THEN [err |-> "none", aug |-> dict[key]]
    ELSE [err |-> "KeyError", aug |-> <<>>]

\* "select aug", lines 113-119
SelectAug(target, aug_mode) ==
    IF aug_mode = "same" THEN Lookup(Augs, target)
    ELSE IF aug_mode = "none" THEN [err |-> "none", aug |-> <<>>]
    ELSE Lookup(Augs, aug_mode)

\* the tensor conversion placed before the normalization
ComposeTensorFirst(aug, normalize) ==
    aug \o <<"ToTensorV2">> \o (IF normalize THEN <<"Normalize">> ELSE <<>>)

\* lines 121-125: the list handed to A.Compose
Compose(aug, normalize) ==
    aug \o (IF normalize THEN <<"Normalize">> ELSE <<>>) \o <<"ToTensorV2">>

Stochastic(albu) == \E i \in DOMAIN albu : albu[i] \in StochasticOps

(***************************************************************************)
(* load_data, lines 128-160.                                               *)
(***************************************************************************)
\* the frames of the target, each with its flag, swapped for 'test'
SelectFramesSwapped(target, split) ==
    CASE target = "train" -> [err |-> "none", dfs |-> <<[df |-> split.train, t |-> FALSE]>>]
      [] target = "test"  -> [err |-> "none", dfs |-> <<[df |-> split.train, t |-> TRUE]>>]
      [] target = "all"   -> [err |-> "none",
                              dfs |-> <<[df |-> split.train, t |-> FALSE],
                                        [df |-> split.test, t |-> TRUE]>>]
      [] OTHER -> [err |-> "ValueError: invalid target", dfs |-> <<>>]

\* lines 143-150: the frames of the target, each with its flag
SelectFrames(target, split) ==
    CASE target = "train" -> [err |-> "none", dfs |-> <<[df |-> split.train, t |-> FALSE]>>]
      [] target = "test"  -> [err |-> "none", dfs |-> <<[df |-> split.test, t |-> TRUE]>>]
      [] target = "all"   -> [err |-> "none",
                              dfs |-> <<[df |-> split.train, t |-> FALSE],
                                        [df |-> split.test, t |-> TRUE]>>]
      [] OTHER -> [err |-> "ValueError: invalid target", dfs |-> <<>>]

\* Item(path, diag, image=Image.open(path), test): Image.open identifies the
\* file and reads no pixel data
Item(row, t) ==
    [path |-> row.path, diag |-> row.diag,
     image |-> [file |-> row.path, loaded |-> FALSE], test |-> t]

\* lines 152-160: one Item per row of each frame, in frame order
RECURSIVE Items(_, _)
Items(data, dfs) ==
    IF dfs = <<>> THEN <<>>
    ELSE [i \in DOMAIN Head(dfs).df |-> Item(data[Head(dfs).df[i]], Head(dfs).t)]
             \o Items(data, Tail(dfs))

\* lines 143-160, after the split: the target's frames, then the items
LoadFrames(self, data, sel) ==
    IF sel.err # "none"
    THEN [self EXCEPT !.err = sel.err, !.did = {"scan", "split"}]
    ELSE [self EXCEPT !.items = Items(data, sel.dfs),
                      !.did = {"scan", "split", "open"}]

\* lines 140-141: the split of the scanned rows
LoadSplit(self, data, split) ==
    IF split.err # "none"
    THEN [self EXCEPT !.err = split.err, !.did = {"scan"}]
    ELSE LoadFrames(self, data, SelectFrames(self.target, split))

LoadRows(self, data) ==
    LoadSplit(self, data, TrainTestSplit(data, self.test_ratio, self.seed))

\* load_data on an object whose fields __init__ has set.  `did` records the
\* work done: the directory scan, the split, the image opens.
LoadData(self, files) == LoadRows(self, Scan(files, self.merge_G))

(***************************************************************************)
(* BTDataset.__init__, lines 64-126.  The result is the object, or, when   *)
(* err is not "none", the exception the constructor raised and the work    *)
(* done before it.                                                         *)
(***************************************************************************)
BTDataset(files, target, merge_G, test_ratio, seed, scale, aug_mode, normalize) ==
    LET sel  == SelectAug(target, aug_mode)
        self == [target |-> target, merge_G |-> merge_G, test_ratio |-> test_ratio,
                 seed |-> seed, scale |-> scale, aug_mode |-> aug_mode,
                 normalize |-> normalize, num_classes |-> NumClasses(merge_G),
                 albu |-> <<>>, items |-> <<>>, err |-> "none", did |-> {}]
    IN  IF sel.err # "none" THEN [self EXCEPT !.err = sel.err]
        ELSE LoadData([self EXCEPT !.albu = Compose(sel.aug, normalize)], files)

Built(d) == d # <<>> /\ d.err = "none"

(***************************************************************************)
(* BTDataset.__len__ and BTDataset.__getitem__, lines 162-173.             *)
(***************************************************************************)
\* a length that replicates every target
LengthAllScaled(self) == Len(self.items) * self.scale

Length(self) ==
    IF self.target = "train" THEN Len(self.items) * self.scale
    ELSE Len(self.items)

\* an index clamped to the last item instead of wrapped
ItemPosClamped(self, idx) == Min2(idx, Len(self.items) - 1) + 1

\* idx % len(self.items), as a position of the 1-based sequence
ItemPos(self, idx) == (idx % Len(self.items)) + 1

\* self.albu(image=np.array(item.image))['image']: the pipeline applied to
\* the pixels of the file; r is the draw of the stochastic operators
Transform(albu, image, r) ==
    [file |-> image.file, draw |-> IF Stochastic(albu) THEN r ELSE 0]

\* torch.tensor(DiagToNum[item.diag])
EncodedLabel(item) == DiagToNum[item.diag]

\* an access that drops the item it served
LoadedAndDropped(self, pos) == [self EXCEPT !.items = Remove(self.items, pos)]

\* np.array(item.image) reads the pixel data on the first access: the image
\* object of the item is loaded from then on
Loaded(self, pos) == [self EXCEPT !.items[pos].image.loaded = TRUE]

(***************************************************************************)
(* State.                                                                  *)
(***************************************************************************)
VARIABLES
    fs,      \* base_dir: the number of .jpg files in each code's directory
    ds,      \* the dataset object of each slot; <<>> before its construction
    call,    \* per worker: the __getitem__ call in progress, or <<>>
    ret,     \* per worker: what its last call returned, or <<>>
    cmd      \* the sample-dump command: its place, its counters, the files written

vars == <<fs, ds, call, ret, cmd>>

Corpora == [Codes -> 0 .. MaxFiles]

RECURSIVE SumFiles(_, _)
SumFiles(files, S) ==
    IF S = {} THEN 0
    ELSE LET c == CHOOSE x \in S : TRUE IN files[c] + SumFiles(files, S \ {c})

\* the corpora of the serving specifications: few files, in the first two
\* directories
ServeCorpora ==
    {f \in Corpora : /\ SumFiles(f, Codes) <= MaxServeFiles
                     /\ \A c \in Codes \ {"L", "M"} : f[c] = 0}

Idle ==
    /\ ds = [s \in Slots |-> <<>>]
    /\ call = [w \in Workers |-> <<>>]
    /\ ret = [w \in Workers |-> <<>>]
    /\ cmd = [pc |-> "idle", total |-> 0, i |-> 0, files |-> {}]

Init == fs \in Corpora /\ Idle

InitServe == fs \in ServeCorpora /\ Idle

\* ds[s] = BTDataset(...)
Construct(s, target, merge_G, test_ratio, seed, scale, aug_mode, normalize) ==
    /\ ds[s] = <<>>
    /\ ds' = [ds EXCEPT ![s] = BTDataset(fs, target, merge_G, test_ratio, seed,
                                         scale, aug_mode, normalize)]
    /\ UNCHANGED <<fs, call, ret, cmd>>

\* Slot 1 holds a dataset of any options; slot 2 a second dataset over the
\* same corpus, built separately with the options of the first and a target
\* of its own.
ConstructNext(s, target, merge_G, test_ratio, seed) ==
    /\ s = 2 => /\ Built(ds[1])
                /\ merge_G = ds[1].merge_G
                /\ test_ratio = ds[1].test_ratio
                /\ seed = ds[1].seed
    /\ Construct(s, target, merge_G, test_ratio, seed, 1, "same", TRUE)

\* len(ds[1]) by worker w
LenCall(w) ==
    /\ Built(ds[1])
    /\ call[w] = <<>>
    /\ ret' = [ret EXCEPT ![w] = [op |-> "len", value |-> Length(ds[1])]]
    /\ UNCHANGED <<fs, ds, call, cmd>>

\* ds[1][idx] by worker w, line 169: the item is read
GetBegin(w, idx) ==
    /\ Built(ds[1])
    /\ call[w] = <<>>
    /\ call' = [call EXCEPT ![w] = [idx |-> idx, pos |-> ItemPos(ds[1], idx),
                                    item |-> ds[1].items[ItemPos(ds[1], idx)]]]
    /\ ret' = [ret EXCEPT ![w] = <<>>]
    /\ UNCHANGED <<fs, ds, cmd>>

\* lines 170-173: the pipeline runs on the item read, the pair is returned
GetEnd(w, r) ==
    /\ call[w] # <<>>
    /\ ret' = [ret EXCEPT ![w] =
                  [op |-> "get", idx |-> call[w].idx, pos |-> call[w].pos,
                   x |-> Transform(ds[1].albu, call[w].item.image, r),
                   y |-> EncodedLabel(call[w].item)]]
    /\ ds' = [ds EXCEPT ![1] = Loaded(ds[1], call[w].pos)]
    /\ call' = [call EXCEPT ![w] = <<>>]
    /\ UNCHANGED <<fs, cmd>>

(***************************************************************************)
(* CMD.run_samples, lines 197-206.                                         *)
(***************************************************************************)
\* line 201: total = len(self.ds); the iteration starts at index 0
SamplesStart ==
    /\ Built(ds[1])
    /\ cmd.pc = "idle"
    /\ cmd' = [cmd EXCEPT !.pc = "loop", !.total = Length(ds[1]), !.i = 0]
    /\ UNCHANGED <<fs, ds, call, ret>>

\* One turn of the loop of line 202.  The dataset defines no __iter__ and
\* its __getitem__ never raises IndexError, so the iterator yields ds[i] for
\* every i; the loop leaves at the break of line 204.
SamplesStep ==
    /\ cmd.pc = "loop"
    /\ LET pos == ItemPos(ds[1], cmd.i)
           y   == EncodedLabel(ds[1].items[pos])
       IN  /\ ds' = [ds EXCEPT ![1] = Loaded(ds[1], pos)]
           /\ IF cmd.i > cmd.total
              THEN cmd' = [cmd EXCEPT !.pc = "done"]
              ELSE cmd' = [cmd EXCEPT
                              !.files = @ \cup {<<cmd.i, NumToDiag[y + 1]>>},
                              !.i = @ + 1]
    /\ UNCHANGED <<fs, call, ret>>

(***************************************************************************)
(* Specifications.                                                         *)
(***************************************************************************)
\* the construction of one dataset under every configuration
NextBuild ==
    \E target \in Targets, test_ratio \in Ratios, aug_mode \in AugModes,
       normalize \in BOOLEAN :
        Construct(1, target, FALSE, test_ratio, 0, 1, aug_mode, normalize)

SpecBuild == Init /\ [][NextBuild]_vars

\* the scan and the split: a dataset, then a sibling with another target
NextSplit ==
    \E s \in Slots, target \in Targets \ {"valid"}, merge_G \in BOOLEAN,
       test_ratio \in ValidRatios, seed \in Seeds :
        ConstructNext(s, target, merge_G, test_ratio, seed)

SpecSplit == Init /\ [][NextSplit]_vars

\* one dataset read by the workers
NextServe ==
    \/ \E target \in Targets \ {"valid"}, scale \in Scales,
          aug_mode \in {"same", "none"} :
           Construct(1, target, FALSE, <<1, 2>>, 0, scale, aug_mode, TRUE)
    \/ \E w \in Workers : LenCall(w)
    \/ \E w \in Workers, idx \in 0 .. MaxIdx : GetBegin(w, idx)
    \/ \E w \in Workers, r \in 0 .. MaxDraw : GetEnd(w, r)

SpecServe == InitServe /\ [][NextServe]_vars

\* one dataset dumped by the samples command
NextSamples ==
    \/ \E target \in Targets \ {"valid"}, scale \in Scales, merge_G \in BOOLEAN :
           Construct(1, target, merge_G, <<1, 2>>, 0, scale, "same", FALSE)
    \/ SamplesStart
    \/ SamplesStep

SpecSamples == InitServe /\ [][NextSamples]_vars

(***************************************************************************)
(* Properties.                                                             *)
(***************************************************************************)
ValidTargets == {"train", "test", "all"}

DocumentedAugModes == {"same", "train", "test", "none"}

\* the records on disk: every file with the label the scan gives it
Corpus(merge_G) ==
    UNION {{[path |-> [dir |-> c, k |-> k],
             diag |-> IF merge_G /\ c \in {"A", "O"} THEN "G" ELSE c] :
                k \in 1 .. fs[c]} : c \in Codes}

Records(d) == {[path |-> d.items[i].path, diag |-> d.items[i].diag] : i \in DOMAIN d.items}

SameOptions(a, b) ==
    /\ a.merge_G = b.merge_G
    /\ a.test_ratio = b.test_ratio
    /\ a.seed = b.seed

\* C1: for one corpus, test_ratio and seed, the items of a 'train' dataset
\* and of a 'test' dataset built separately are disjoint and together are the
\* scanned corpus; an 'all' dataset holds one item per scanned record, and an
\* item's is-test flag is true exactly when the record is in the 'test'
\* dataset.
C1_TrainTestPartition ==
    \A a \in Slots, b \in Slots :
        (Built(ds[a]) /\ Built(ds[b]) /\ SameOptions(ds[a], ds[b])) =>
            LET corpus == Corpus(ds[a].merge_G)
            IN  /\ (ds[a].target = "train" /\ ds[b].target = "test") =>
                       /\ Records(ds[a]) \cap Records(ds[b]) = {}
                       /\ Records(ds[a]) \cup Records(ds[b]) = corpus
                /\ ds[a].target = "all" =>
                       /\ Records(ds[a]) = corpus
                       /\ Len(ds[a].items) = Cardinality(corpus)
                       /\ ds[b].target = "test" =>
                              \A i \in DOMAIN ds[a].items :
                                  ds[a].items[i].test <=>
                                      \E j \in DOMAIN ds[b].items :
                                          ds[b].items[j].path = ds[a].items[i].path

\* a 'train' dataset and a 'test' dataset over a corpus of several labels
C1_Witness ==
    /\ Built(ds[1]) /\ Built(ds[2])
    /\ ds[1].target = "train" /\ ds[2].target = "test"
    /\ Cardinality({r.diag : r \in Records(ds[1])}) >= 2
    /\ Len(ds[2].items) >= 2

\* C2: length() is n * scale for target 'train' and n for 'test' and 'all',
\* n being the number of stored items.
C2_Length ==
    \A w \in Workers :
        (ret[w] # <<>> /\ ret[w].op = "len") =>
            /\ ds[1].target = "train" => ret[w].value = Len(ds[1].items) * ds[1].scale
            /\ ds[1].target \in {"test", "all"} => ret[w].value = Len(ds[1].items)

\* lengths returned for a replicated 'train' dataset
C2_Witness ==
    /\ Built(ds[1]) /\ ds[1].target = "train" /\ ds[1].scale >= 2
    /\ \E w \in Workers :
           ret[w] # <<>> /\ ret[w].op = "len" /\ ret[w].value > Len(ds[1].items)

Returned(w) == ret[w] # <<>> /\ ret[w].op = "get"

\* C3: get(i) reads the stored item at position i mod n and returns its
\* encoded label; get(i) and get(i + n) read the same item and return the
\* same label, and the same result when the pipeline has no stochastic
\* operator.
C3_WrapAround ==
    LET n == Len(ds[1].items)
    IN  /\ \A w \in Workers :
               Returned(w) =>
                   /\ ret[w].pos = (ret[w].idx % n) + 1
                   /\ ret[w].x.file = ds[1].items[(ret[w].idx % n) + 1].path
                   /\ ret[w].y = DiagToNum[ds[1].items[(ret[w].idx % n) + 1].diag]
        /\ \A v \in Workers, w \in Workers :
               (Returned(v) /\ Returned(w) /\ ret[w].idx = ret[v].idx + n) =>
                   /\ ret[w].x.file = ret[v].x.file
                   /\ ret[w].y = ret[v].y
                   /\ ~Stochastic(ds[1].albu) => ret[w].x = ret[v].x

\* get(i) and get(i + n) have returned, i + n being past the stored items
C3_Witness ==
    /\ Built(ds[1]) /\ Len(ds[1].items) >= 2 /\ ~Stochastic(ds[1].albu)
    /\ Returned(1) /\ Returned(2)
    /\ ret[1].idx > 0
    /\ ret[2].idx = ret[1].idx + Len(ds[1].items)

ConfigurationError(d) ==
    d.target \notin ValidTargets \/ d.test_ratio[1] <= 0 \/ d.test_ratio[1] >= d.test_ratio[2]

\* C4: a target outside {train, test, all} and a test_ratio outside (0, 1)
\* make the construction fail before the directory scan, the split and any
\* image open, whatever the aug_mode (stated here for a base_dir that holds
\* a file).
C4_FailBeforeScan ==
    (ds[1] # <<>> /\ ConfigurationError(ds[1]) /\ \E c \in Codes : fs[c] > 0) =>
        (ds[1].err # "none" /\ ds[1].did = {})

\* C5: the construction raises for every aug_mode outside {same, train,
\* test, none}, for every valid target.
C5_UnknownAugModeRejected ==
    (ds[1] # <<>> /\ ds[1].target \in ValidTargets
        /\ ds[1].aug_mode \notin DocumentedAugModes) => ds[1].err # "none"

\* C6: for every target in {train, test, all}, aug_mode in {same, train,
\* test, none} and normalize, the pipeline is the policy list (the target's
\* own for 'same', 'all' as 'test'; empty for 'none'; else the one aug_mode
\* names), then one normalization if and only if normalize, then one tensor
\* conversion, last.
C6_Pipeline ==
    (Built(ds[1]) /\ ds[1].aug_mode \in DocumentedAugModes) =>
        LET d      == ds[1]
            named  == IF d.aug_mode = "same" THEN d.target ELSE d.aug_mode
            policy == CASE named = "none"  -> <<>>
                        [] named = "train" -> TrainPolicy
                        [] OTHER           -> TestPolicy
            m      == Len(policy)
            tail   == [i \in 1 .. Len(d.albu) - m |-> d.albu[i + m]]
        IN  /\ Len(d.albu) >= m
            /\ [i \in 1 .. m |-> d.albu[i]] = policy
            /\ tail = IF d.normalize THEN <<"Normalize", "ToTensorV2">>
                      ELSE <<"ToTensorV2">>

\* a 'test' dataset sent through the training policy, normalized
C6_Witness ==
    /\ Built(ds[1]) /\ ds[1].target = "test" /\ ds[1].aug_mode = "train"
    /\ ds[1].normalize
    /\ Len(ds[1].albu) = Len(TrainPolicy) + 2

\* C7: with merge every stored label, of a second or later file of a
\* directory too, is collapse(directory), lies in {L, M, G} and encodes
\* below the class count 3; without merge the label is the directory and the
\* class count is 5.  collapse is idempotent with image {L, M, G}.
C7_MergedLabels ==
    /\ \A c \in Codes : Map5to3[Map5to3[c]] = Map5to3[c]
    /\ {Map5to3[c] : c \in Codes} = {"L", "M", "G"}
    /\ Built(ds[1]) =>
           /\ ds[1].num_classes = IF ds[1].merge_G THEN 3 ELSE 5
           /\ \A i \in DOMAIN ds[1].items :
                  LET it == ds[1].items[i]
                  IN  IF ds[1].merge_G
                      THEN /\ it.diag = Map5to3[it.path.dir]
                           /\ it.diag \in {"L", "M", "G"}
                           /\ DiagToNum[it.diag] < 3
                      ELSE it.diag = it.path.dir

\* a merged dataset holding the second file of directory A or O
C7_Witness ==
    /\ Built(ds[1]) /\ ds[1].merge_G
    /\ \E i \in DOMAIN ds[1].items :
           /\ ds[1].items[i].path.dir \in {"A", "O"}
           /\ ds[1].items[i].path.k >= 2
           /\ ds[1].items[i].diag = "G"

\* the records of a label on the test side, among the items of an 'all'
\* dataset
TestCount(d, c) ==
    Cardinality({i \in DOMAIN d.items : d.items[i].diag = c /\ d.items[i].test})

LabelCount(d, c) == Cardinality({i \in DOMAIN d.items : d.items[i].diag = c})

\* C8: for every test_ratio in (0, 1) and every corpus with a record the
\* split succeeds, and each label's test records number test_ratio times
\* the label's records, within rounding.
C8_SplitAlwaysSucceeds ==
    (ds[1] # <<>> /\ \E c \in Codes : fs[c] > 0) =>
        /\ Built(ds[1])
        /\ ds[1].target = "all" =>
               \A c \in Codes :
                   LET p == ds[1].test_ratio[1]
                       q == ds[1].test_ratio[2]
                       e == q * TestCount(ds[1], c) - p * LabelCount(ds[1], c)
                   IN  -q < e /\ e < q

\* what the calls leave alone: the items (paths, labels, flags, order,
\* count), the target, the scale and the pipeline
Frozen(d) ==
    [items |-> [i \in DOMAIN d.items |->
                   [path |-> d.items[i].path, diag |-> d.items[i].diag,
                    test |-> d.items[i].test]],
     target |-> d.target, scale |-> d.scale, albu |-> d.albu]

\* C9: after construction no length() or get() changes the stored items,
\* the target, the scale or the pipeline, and under any interleaving of the
\* workers' calls each call reads and returns the item and the label a
\* sequential execution would.
C9_ReadOnly ==
    /\ [][Built(ds[1]) => Frozen(ds[1])' = Frozen(ds[1])]_vars
    /\ [](\A w \in Workers :
              /\ call[w] # <<>> =>
                     /\ call[w].pos \in DOMAIN ds[1].items
                     /\ call[w].item.path = ds[1].items[call[w].pos].path
                     /\ call[w].item.diag = ds[1].items[call[w].pos].diag
              /\ Returned(w) =>
                     /\ ret[w].pos \in DOMAIN ds[1].items
                     /\ ret[w].x.file = ds[1].items[ret[w].pos].path
                     /\ ret[w].y = DiagToNum[ds[1].items[ret[w].pos].diag])

\* two calls in progress at once, on an item another call has loaded
C9_Witness ==
    /\ call[1] # <<>> /\ call[2] # <<>>
    /\ call[1].pos = call[2].pos
    /\ call[1].idx # call[2].idx
    /\ ~call[1].item.image.loaded
    /\ ds[1].items[call[1].pos].image.loaded

\* C10: the samples command ends having written exactly length() files, one
\* for each index 0 .. length()-1, named by the index and the item's code.
C10_OneFilePerSample ==
    cmd.pc = "done" =>
        cmd.files = {<<i, ds[1].items[(i % Len(ds[1].items)) + 1].diag>> :
                        i \in 0 .. Length(ds[1]) - 1}

=============================================================================
